---- MODULE Spec2Model ----
(***************************************************************************)
(* Model of src/inactive-regions.ts: the client-side handling of clangd's  *)
(* inactive-code semantic tokens (decode, delta patch, extract, remap) and *)
(* the per-document caches behind it.                                      *)
(*                                                                         *)
(* JavaScript values: an element of a Uint32Array is a natural number; the *)
(* two non-numbers the code can produce are encoded as negative integers   *)
(* (Undefined, NaN) so that every value stays comparable.                  *)
(*                                                                         *)
(* The host is single-threaded: it dispatches one event, the handler runs  *)
(* to completion (one action), and its result is taken (Return) before the *)
(* next event is dispatched.                                               *)
(***************************************************************************)
EXTENDS Integers, Sequences, FiniteSets, TLC

VARIABLES
    inactiveCodeTokenTypeIndex,        \* module global, number | undefined
    inactiveCodeTokenTypeReplaceIndex, \* module global, number (unset at load)
    legend,                            \* legend negotiated by the latest initialize
    lastTokens,                        \* WeakMap document -> SemanticTokens
    lastInactiveRanges,                \* WeakMap document -> Range[]
    visibleTextEditors,                \* vscode.window.visibleTextEditors
    decorations,                       \* editor -> ranges of its last setDecorations
    decorated,                         \* editors setDecorations was invoked on by the last call
    call,                              \* the last call and its arguments
    ret                                \* what the last call returned

vars == <<inactiveCodeTokenTypeIndex, inactiveCodeTokenTypeReplaceIndex, legend,
          lastTokens, lastInactiveRanges, visibleTextEditors, decorations,
          decorated, call, ret>>

-----------------------------------------------------------------------------
(* JavaScript values *)

Undefined == 0 - 1
NaN == 0 - 2

\* number + number; undefined or NaN as an operand gives NaN
JsAdd(a, b) == IF a < 0 \/ b < 0 THEN NaN ELSE a + b

\* a == b on numbers and undefined: NaN equals nothing, undefined equals itself
LooseEq(a, b) == a # NaN /\ a = b

\* The value a Uint32Array element takes when v is stored in it.  Every number
\* stored is an element of another Uint32Array or a legend's length, so it is
\* below 2^32 and stored as it is; undefined and NaN are stored as 0.
ToUint32(v) == IF v < 0 THEN 0 ELSE v

\* data[i], i counted from 0; undefined outside the array
Get(data, i) == IF i >= 0 /\ i < Len(data) THEN data[i + 1] ELSE Undefined

\* new Uint32Array(n): n zeroes
Zeroes(n) == [i \in 1..n |-> 0]

\* WeakMap.set
MapSet(m, k, v) == [x \in DOMAIN m \cup {k} |-> IF x = k THEN v ELSE m[x]]

EmptyMap == [x \in {} |-> 0]

-----------------------------------------------------------------------------
(* The pure functions *)

Position(line, character) == [line |-> line, character |-> character]

Range(start, end) == [start |-> start, end |-> end]

\* ComputeLoop with the column never reset at a new line
RECURSIVE ComputeLoopNoReset(_, _, _, _, _)
ComputeLoopNoReset(data, tokenIndex, lastLineNumber, lastStartCharacter, inactiveRanges) ==
    IF ~(5 * tokenIndex < Len(data))
    THEN inactiveRanges
    ELSE LET offset == 5 * tokenIndex
             lineNumber == JsAdd(lastLineNumber, Get(data, offset))
             startCharacter == JsAdd(lastStartCharacter, Get(data, offset + 1))
             pushed == IF LooseEq(Get(data, offset + 3), inactiveCodeTokenTypeIndex)
                       THEN Append(inactiveRanges,
                                   Range(Position(lineNumber, startCharacter),
                                         Position(lineNumber,
                                                  JsAdd(startCharacter,
                                                        Get(data, offset + 2)))))
                       ELSE inactiveRanges
         IN  ComputeLoopNoReset(data, tokenIndex + 1, lineNumber, startCharacter, pushed)

\* The while loop of computeInactiveRanges, from tokenIndex on.  tokenCount is
\* data.length / 5, a fraction when the length is no multiple of 5, so the
\* loop runs while 5 * tokenIndex < data.length.
RECURSIVE ComputeLoop(_, _, _, _, _)
ComputeLoop(data, tokenIndex, lastLineNumber, lastStartCharacter, inactiveRanges) ==
    IF ~(5 * tokenIndex < Len(data))
    THEN inactiveRanges
    ELSE LET offset == 5 * tokenIndex
             deltaLine == Get(data, offset)
             deltaCharacter == Get(data, offset + 1)
             lineNumber == JsAdd(lastLineNumber, deltaLine)
             startCharacter == IF deltaLine = 0
                               THEN JsAdd(lastStartCharacter, deltaCharacter)
                               ELSE deltaCharacter
             length == Get(data, offset + 2)
             tokenTypeIndex == Get(data, offset + 3)
             pushed == IF LooseEq(tokenTypeIndex, inactiveCodeTokenTypeIndex)
                       THEN Append(inactiveRanges,
                                   Range(Position(lineNumber, startCharacter),
                                         Position(lineNumber, JsAdd(startCharacter, length))))
                       ELSE inactiveRanges
         IN  ComputeLoop(data, tokenIndex + 1, lineNumber, startCharacter, pushed)

\* computeInactiveRanges counting lines from 1
computeInactiveRangesFromLineOne(tokens) == ComputeLoop(tokens.data, 0, 1, 0, <<>>)

computeInactiveRanges(tokens) == ComputeLoop(tokens.data, 0, 0, 0, <<>>)

\* data[i] = v on a Uint32Array, i counted from 0: ignored outside the array
SetAt(data, i, v) ==
    IF i >= 0 /\ i < Len(data) THEN [data EXCEPT ![i + 1] = ToUint32(v)] ELSE data

\* ReplaceLoop looking at the modifiers (offset + 4) instead of the type
RECURSIVE ReplaceLoopWrongField(_, _)
ReplaceLoopWrongField(data, tokenIndex) ==
    IF ~(5 * tokenIndex < Len(data))
    THEN data
    ELSE LET offset == 5 * tokenIndex
         IN  ReplaceLoopWrongField(
                 IF LooseEq(Get(data, offset + 4), inactiveCodeTokenTypeIndex)
                 THEN SetAt(data, offset + 4, inactiveCodeTokenTypeReplaceIndex)
                 ELSE data,
                 tokenIndex + 1)

\* The for loop of replaceInactiveRanges, from tokenIndex on.
RECURSIVE ReplaceLoop(_, _)
ReplaceLoop(data, tokenIndex) ==
    IF ~(5 * tokenIndex < Len(data))
    THEN data
    ELSE LET offset == 5 * tokenIndex
         IN  ReplaceLoop(IF LooseEq(Get(data, offset + 3), inactiveCodeTokenTypeIndex)
                         THEN SetAt(data, offset + 3, inactiveCodeTokenTypeReplaceIndex)
                         ELSE data,
                         tokenIndex + 1)

\* replaceInactiveRanges handing its input on
replaceInactiveRangesNoCopy(tokens) == tokens

replaceInactiveRanges(tokens) ==
    [resultId |-> tokens.resultId, data |-> ReplaceLoop(tokens.data, 0)]

isSemanticTokens(tokens) == "data" \in DOMAIN tokens

\* copy(src, srcOffset, dest, destOffset, length): the loop writes each
\* dest[destOffset + i] once, from src[srcOffset + i]; a read outside src is
\* undefined (stored as 0), a write outside dest is ignored.
copy(src, srcOffset, dest, destOffset, length) ==
    [j \in 1..Len(dest) |->
        IF j - 1 >= destOffset /\ j - 1 < destOffset + length
        THEN ToUint32(Get(src, srcOffset + (j - 1 - destOffset)))
        ELSE dest[j]]

\* the first loop of applyDelta
RECURSIVE DeltaLength(_)
DeltaLength(edits) ==
    IF edits = <<>> THEN 0
    ELSE (Len(Head(edits).data) - Head(edits).deleteCount) + DeltaLength(Tail(edits))

\* ApplyLoop with the deleted span forgotten in copyCount
RECURSIVE ApplyLoopKeepsDeleted(_, _, _, _, _, _)
ApplyLoopKeepsDeleted(edits, i, srcData, destData, srcLastStart, destLastStart) ==
    IF i < 0
    THEN IF srcLastStart > 0
         THEN copy(srcData, 0, destData, 0, srcLastStart)
         ELSE destData
    ELSE LET edit == edits[i + 1]
             copyCount == srcLastStart - edit.start
             dest1 == copy(srcData, srcLastStart - copyCount, destData,
                           destLastStart - copyCount, copyCount)
             destLastStart1 == destLastStart - copyCount
             dest2 == copy(edit.data, 0, dest1, destLastStart1 - Len(edit.data),
                           Len(edit.data))
         IN  ApplyLoopKeepsDeleted(edits, i - 1, srcData, dest2, edit.start,
                                   destLastStart1 - Len(edit.data))

\* The second loop of applyDelta, from edit i (counted from 0) downwards, and
\* the copy of the prefix that follows it.
RECURSIVE ApplyLoop(_, _, _, _, _, _)
ApplyLoop(edits, i, srcData, destData, srcLastStart, destLastStart) ==
    IF i < 0
    THEN IF srcLastStart > 0
         THEN copy(srcData, 0, destData, 0, srcLastStart)
         ELSE destData
    ELSE LET edit == edits[i + 1]
             copyCount == srcLastStart - (edit.start + edit.deleteCount)
             dest1 == IF copyCount # 0
                      THEN copy(srcData, srcLastStart - copyCount, destData,
                                destLastStart - copyCount, copyCount)
                      ELSE destData
             destLastStart1 == IF copyCount # 0 THEN destLastStart - copyCount
                               ELSE destLastStart
             dest2 == copy(edit.data, 0, dest1, destLastStart1 - Len(edit.data),
                           Len(edit.data))
             destLastStart2 == destLastStart1 - Len(edit.data)
         IN  ApplyLoop(edits, i - 1, srcData, dest2, edit.start, destLastStart2)

\* applyDelta returning the patched data under the previous resultId
applyDeltaKeepsResultId(prev, delta) ==
    LET destLength == Len(prev.data) + DeltaLength(delta.edits)
    IN  IF destLength < 0
        THEN [threw |-> "RangeError"]
        ELSE [resultId |-> prev.resultId,
              data |-> ApplyLoop(delta.edits, Len(delta.edits) - 1, prev.data,
                                 Zeroes(destLength), Len(prev.data), destLength)]

\* thrown by new Uint32Array(n) for n < 0
RangeError == [threw |-> "RangeError"]

\* An edit without data and an edit with empty data behave alike (both add 0
\* to deltaLength and copy nothing), so edit.data is always a sequence here.
applyDelta(prev, delta) ==
    LET deltaLength == DeltaLength(delta.edits)
        srcData == prev.data
        destLength == Len(srcData) + deltaLength
    IN  IF destLength < 0
        THEN RangeError
        ELSE [resultId |-> delta.resultId,
              data |-> ApplyLoop(delta.edits, Len(delta.edits) - 1, srcData,
                                 Zeroes(destLength), Len(srcData), destLength)]

-----------------------------------------------------------------------------
(* Bounds and input sets *)

MaxDataLen == 10    \* longest buffer a delta may produce in Spec

Documents == {"a.cpp", "b.cpp"}

Editors == {"e1", "e2"}

\* editor.document
DocumentOf(e) == IF e = "e1" THEN "a.cpp" ELSE "b.cpp"

ResultIds == {"1", "2"}

Legends == {<<"comment", "keyword">>, <<"keyword">>}

\* the streams of the full transmissions of Spec: one record, two records,
\* and a stream whose length is no multiple of 5
Streams == {<<2, 4, 6, 0, 0>>, <<2, 4, 6, 0, 0, 0, 5, 3, 1, 0>>, <<2, 4, 6>>}

Edit(start, deleteCount, data) ==
    [start |-> start, deleteCount |-> deleteCount, data |-> data]

\* The edit lists of the delta transmissions of Spec: none, append a record
\* after the first, delete the second record, retype the first record and
\* delete the second, and a list whose edits overlap.  Against a shorter
\* buffer than the one they suit, they reach past its end.
EditLists ==
    { <<>>,
      <<Edit(5, 0, <<0, 5, 3, 1, 0>>)>>,
      <<Edit(5, 5, <<>>)>>,
      <<Edit(3, 1, <<1>>), Edit(5, 5, <<>>)>>,
      <<Edit(0, 5, <<>>), Edit(3, 1, <<1>>)>> }

FullPayloads == {[resultId |-> r, data |-> d] : r \in ResultIds, d \in Streams}

DeltaPayloads == {[resultId |-> r, edits |-> e] : r \in ResultIds, e \in EditLists}

\* The second document takes part with one stream and the empty edit list.
FullPayloadsFor(document) ==
    IF document = "a.cpp" THEN FullPayloads
    ELSE {t \in FullPayloads : t.data = <<2, 4, 6, 0, 0>>}

DeltaPayloadsFor(document) ==
    IF document = "a.cpp" THEN DeltaPayloads
    ELSE {t \in DeltaPayloads : t.edits = <<>>}

Capabilities ==
    {[semanticTokensProvider |-> TRUE, tokenTypes |-> l] : l \in Legends}
    \cup {[semanticTokensProvider |-> FALSE, tokenTypes |-> <<>>]}

-----------------------------------------------------------------------------
(* The handlers *)

NoLegend == [negotiated |-> FALSE, tokenTypes |-> <<>>]

Void == [void |-> TRUE]

\* no handler is running: the host's event loop dispatches the next event
Idle == [op |-> "idle"]

\* The for loop of initialize, from index i (counted from 0) on: the index
\* recorded is that of the last 'comment' in the legend.
RECURSIVE InitializeLoop(_, _, _)
InitializeLoop(tokenTypes, i, index) ==
    IF ~(i < Len(tokenTypes)) THEN index
    ELSE InitializeLoop(tokenTypes, i + 1,
                        IF tokenTypes[i + 1] = "comment" THEN i ELSE index)

\* The language client calls initialize at every start of the server, so
\* again after a restart.  A server without semanticTokensProvider sends no
\* tokens and leaves everything as it was.
initialize(capabilities) ==
    /\ call = Idle
    /\ IF capabilities.semanticTokensProvider
       THEN /\ inactiveCodeTokenTypeIndex' =
                   InitializeLoop(capabilities.tokenTypes, 0, inactiveCodeTokenTypeIndex)
            /\ inactiveCodeTokenTypeReplaceIndex' = Len(capabilities.tokenTypes)
            /\ legend' = [negotiated |-> TRUE, tokenTypes |-> capabilities.tokenTypes]
       ELSE UNCHANGED <<inactiveCodeTokenTypeIndex, inactiveCodeTokenTypeReplaceIndex,
                        legend>>
    /\ call' = [op |-> "initialize", capabilities |-> capabilities]
    /\ ret' = Void
    /\ decorated' = {}
    /\ UNCHANGED <<lastTokens, lastInactiveRanges, visibleTextEditors, decorations>>

\* editor.setDecorations(inactiveCodeDecorationType, ranges) on every editor of es
SetDecorations(es, rangesOf) ==
    [e \in DOMAIN decorations \cup es |->
        IF e \in es THEN rangesOf[e] ELSE decorations[e]]

\* applyInactiveRegions clearing the editors it has no ranges for
applyInactiveRegionsClears(editors) ==
    LET RangesOf == [e \in editors |->
                        IF DocumentOf(e) \in DOMAIN lastInactiveRanges
                        THEN lastInactiveRanges[DocumentOf(e)]
                        ELSE <<>>]
    IN  /\ decorations' = SetDecorations(editors, RangesOf)
        /\ decorated' = editors

applyInactiveRegions(editors) ==
    LET cached == {e \in editors : DocumentOf(e) \in DOMAIN lastInactiveRanges}
        RangesOf == [e \in cached |-> lastInactiveRanges[DocumentOf(e)]]
    IN  /\ decorations' = SetDecorations(cached, RangesOf)
        /\ decorated' = cached

\* the host's onDidChangeVisibleTextEditors event, handled by applyInactiveRegions
onDidChangeVisibleTextEditors(editors) ==
    /\ call = Idle
    /\ editors # visibleTextEditors
    /\ visibleTextEditors' = editors
    /\ applyInactiveRegions(editors)
    /\ call' = [op |-> "onDidChangeVisibleTextEditors", editors |-> editors]
    /\ ret' = Void
    /\ UNCHANGED <<inactiveCodeTokenTypeIndex, inactiveCodeTokenTypeReplaceIndex, legend,
                   lastTokens, lastInactiveRanges>>

\* ProvideBody keeping the tokens stored first for a document
ProvideBodyKeepsFirst(document, tokens) ==
    LET inactiveRanges == computeInactiveRanges(tokens)
        shown == {e \in visibleTextEditors : DocumentOf(e) = document}
        RangesOf == [e \in shown |-> inactiveRanges]
    IN  /\ lastTokens' = IF document \in DOMAIN lastTokens THEN lastTokens
                          ELSE MapSet(lastTokens, document, tokens)
        /\ lastInactiveRanges' = MapSet(lastInactiveRanges, document, inactiveRanges)
        /\ decorations' = SetDecorations(shown, RangesOf)
        /\ decorated' = shown
        /\ ret' = replaceInactiveRanges(tokens)

\* ProvideBody storing the stream it forwards
ProvideBodyStoresRemapped(document, tokens) ==
    LET inactiveRanges == computeInactiveRanges(tokens)
        shown == {e \in visibleTextEditors : DocumentOf(e) = document}
        RangesOf == [e \in shown |-> inactiveRanges]
    IN  /\ lastTokens' = MapSet(lastTokens, document, replaceInactiveRanges(tokens))
        /\ lastInactiveRanges' = MapSet(lastInactiveRanges, document, inactiveRanges)
        /\ decorations' = SetDecorations(shown, RangesOf)
        /\ decorated' = shown
        /\ ret' = replaceInactiveRanges(tokens)

\* ProvideBody without the setDecorations calls
ProvideBodyNoDecoration(document, tokens) ==
    LET inactiveRanges == computeInactiveRanges(tokens)
    IN  /\ lastTokens' = MapSet(lastTokens, document, tokens)
        /\ lastInactiveRanges' = MapSet(lastInactiveRanges, document, inactiveRanges)
        /\ decorations' = decorations
        /\ decorated' = {}
        /\ ret' = replaceInactiveRanges(tokens)

\* ProvideBody decorating every visible editor, whatever its document
ProvideBodyDecoratesAll(document, tokens) ==
    LET inactiveRanges == computeInactiveRanges(tokens)
        shown == visibleTextEditors
        RangesOf == [e \in shown |-> inactiveRanges]
    IN  /\ lastTokens' = MapSet(lastTokens, document, tokens)
        /\ lastInactiveRanges' = MapSet(lastInactiveRanges, document, inactiveRanges)
        /\ decorations' = SetDecorations(shown, RangesOf)
        /\ decorated' = shown
        /\ ret' = replaceInactiveRanges(tokens)

\* the body of provideDocumentSemanticTokens
ProvideBody(document, tokens) ==
    LET inactiveRanges == computeInactiveRanges(tokens)
        shown == {e \in visibleTextEditors : DocumentOf(e) = document}
        RangesOf == [e \in shown |-> inactiveRanges]
    IN  /\ lastTokens' = MapSet(lastTokens, document, tokens)
        /\ lastInactiveRanges' = MapSet(lastInactiveRanges, document, inactiveRanges)
        /\ decorations' = SetDecorations(shown, RangesOf)
        /\ decorated' = shown
        /\ ret' = replaceInactiveRanges(tokens)

\* Tokens arrive only from a server that announced a semanticTokensProvider.
provideDocumentSemanticTokens(document, tokens) ==
    /\ call = Idle
    /\ legend.negotiated
    /\ ProvideBody(document, tokens)
    /\ call' = [op |-> "provideDocumentSemanticTokens", document |-> document,
                tokens |-> tokens]
    /\ UNCHANGED <<inactiveCodeTokenTypeIndex, inactiveCodeTokenTypeReplaceIndex, legend,
                   visibleTextEditors>>

\* Unresolvable with the resultId never compared
UnresolvableOnlyIfMissing(document, previousResultId) ==
    document \notin DOMAIN lastTokens

\* lastTokens.get(document) is missing or carries another resultId
Unresolvable(document, previousResultId) ==
    \/ document \notin DOMAIN lastTokens
    \/ lastTokens[document].resultId # previousResultId

\* EditsBody testing the declared base before the kind of the payload
EditsBodyBaseFirst(document, previousResultId, tokens) ==
    IF Unresolvable(document, previousResultId)
    THEN /\ ret' = tokens
         /\ decorated' = {}
         /\ UNCHANGED <<lastTokens, lastInactiveRanges, decorations>>
    ELSE IF isSemanticTokens(tokens)
    THEN ProvideBody(document, tokens)
    ELSE LET patched == applyDelta(lastTokens[document], tokens)
         IN  IF patched = RangeError
             THEN /\ ret' = RangeError
                  /\ decorated' = {}
                  /\ UNCHANGED <<lastTokens, lastInactiveRanges, decorations>>
             ELSE /\ Len(patched.data) <= MaxDataLen
                  /\ ProvideBody(document, patched)

\* the body of provideDocumentSemanticTokensEdits
EditsBody(document, previousResultId, tokens) ==
    IF ~isSemanticTokens(tokens)
    THEN IF Unresolvable(document, previousResultId)
         THEN /\ ret' = tokens
              /\ decorated' = {}
              /\ UNCHANGED <<lastTokens, lastInactiveRanges, decorations>>
         ELSE LET patched == applyDelta(lastTokens[document], tokens)
              IN  IF patched = RangeError
                  THEN /\ ret' = RangeError
                       /\ decorated' = {}
                       /\ UNCHANGED <<lastTokens, lastInactiveRanges, decorations>>
                  ELSE /\ Len(patched.data) <= MaxDataLen
                       /\ ProvideBody(document, patched)
    ELSE ProvideBody(document, tokens)

provideDocumentSemanticTokensEdits(document, previousResultId, tokens) ==
    /\ call = Idle
    /\ legend.negotiated
    /\ EditsBody(document, previousResultId, tokens)
    /\ call' = [op |-> "provideDocumentSemanticTokensEdits", document |-> document,
                previousResultId |-> previousResultId, tokens |-> tokens]
    /\ UNCHANGED <<inactiveCodeTokenTypeIndex, inactiveCodeTokenTypeReplaceIndex, legend,
                   visibleTextEditors>>

\* the handler returns to the host's event loop, which takes its result
Return ==
    /\ call # Idle
    /\ call' = Idle
    /\ ret' = Void
    /\ decorated' = {}
    /\ UNCHANGED <<inactiveCodeTokenTypeIndex, inactiveCodeTokenTypeReplaceIndex, legend,
                   lastTokens, lastInactiveRanges, visibleTextEditors, decorations>>

-----------------------------------------------------------------------------
(* The extension after activate *)

Init ==
    /\ inactiveCodeTokenTypeIndex = Undefined
    /\ inactiveCodeTokenTypeReplaceIndex = Undefined
    /\ legend = NoLegend
    /\ lastTokens = EmptyMap
    /\ lastInactiveRanges = EmptyMap
    /\ visibleTextEditors \in SUBSET Editors
    /\ decorations = EmptyMap
    /\ decorated = {}
    /\ call = Idle
    /\ ret = Void

Next ==
    \/ \E capabilities \in Capabilities : initialize(capabilities)
    \/ \E editors \in SUBSET Editors : onDidChangeVisibleTextEditors(editors)
    \/ \E document \in Documents : \E tokens \in FullPayloadsFor(document) :
          provideDocumentSemanticTokens(document, tokens)
    \/ \E document \in Documents, previousResultId \in ResultIds :
          \E tokens \in FullPayloadsFor(document) \cup DeltaPayloadsFor(document) :
             provideDocumentSemanticTokensEdits(document, previousResultId, tokens)
    \/ Return

Spec == Init /\ [][Next]_vars

-----------------------------------------------------------------------------
(* The pure functions on their own: Init draws a call, an action applies it *)

MaxTokens == 2      \* records in a generated stream
MaxSrcLen == 4      \* length of the buffer handed to applyDelta
MaxEdits == 2       \* edits in a generated edit list

\* records [deltaLine, deltaStartColumn, length, typeCode, modifierBits]
FnRecords ==
    {<<dl, dc, 3, ty, 7>> : dl \in {0, 1}, dc \in {0, 2}, ty \in {0, 1, 2}}

RECURSIVE StreamsOf(_, _)
StreamsOf(records, n) ==
    IF n = 0 THEN {<<>>}
    ELSE LET shorter == StreamsOf(records, n - 1)
         IN  shorter \cup {s \o r : s \in shorter, r \in records}

\* the generated streams, whole and cut short by up to 4 integers, and the
\* documented example
FnStreams ==
    {SubSeq(s, 1, Len(s) - k) : s \in StreamsOf(FnRecords, MaxTokens), k \in 0..4}
    \cup {<<2, 4, 6, 0, 0>>}

\* The values initialize can leave in the two globals: both unset, or the
\* replace index set and the token type index unset, fresh or left over.
FnGlobals ==
    {<<Undefined, Undefined>>}
    \cup {<<i, n>> : i \in {Undefined, 0, 1}, n \in 1..3}

\* a buffer whose elements are all different
Iota(n) == [i \in 1..n |-> 100 + i]

FnEdits ==
    {Edit(start, deleteCount, data) :
        start \in 0..MaxSrcLen, deleteCount \in 0..2, data \in {<<>>, <<201, 202>>}}

RECURSIVE SeqsUpTo(_, _)
SeqsUpTo(S, n) ==
    IF n = 0 THEN {<<>>}
    ELSE LET shorter == SeqsUpTo(S, n - 1)
         IN  shorter \cup {Append(q, x) : q \in shorter, x \in S}

ExamplePrevious == <<0, 0, 3, 1, 0, 2, 0, 4, 2, 0>>

ExampleEdits == <<Edit(5, 5, <<1, 0, 4, 3, 0>>)>>

ApplyDeltaCalls ==
    {[op |-> "applyDelta", prev |-> [resultId |-> "1", data |-> Iota(n)],
      delta |-> [resultId |-> "2", edits |-> es]] :
        n \in 0..MaxSrcLen, es \in SeqsUpTo(FnEdits, MaxEdits)}
    \cup {[op |-> "applyDelta", prev |-> [resultId |-> "1", data |-> ExamplePrevious],
           delta |-> [resultId |-> "2", edits |-> ExampleEdits]]}

TokensCalls ==
    {[op |-> f, tokens |-> [resultId |-> "1", data |-> d]] :
        f \in {"computeInactiveRanges", "replaceInactiveRanges"}, d \in FnStreams}

Pending == [pending |-> TRUE]

InitFn ==
    /\ \/ /\ call \in ApplyDeltaCalls
          /\ inactiveCodeTokenTypeIndex = Undefined
          /\ inactiveCodeTokenTypeReplaceIndex = Undefined
       \/ /\ call \in TokensCalls
          /\ \E g \in FnGlobals :
                /\ inactiveCodeTokenTypeIndex = g[1]
                /\ inactiveCodeTokenTypeReplaceIndex = g[2]
    /\ ret = Pending
    /\ legend = NoLegend
    /\ lastTokens = EmptyMap
    /\ lastInactiveRanges = EmptyMap
    /\ visibleTextEditors = {}
    /\ decorations = EmptyMap
    /\ decorated = {}

FnFrame ==
    UNCHANGED <<inactiveCodeTokenTypeIndex, inactiveCodeTokenTypeReplaceIndex, legend,
                lastTokens, lastInactiveRanges, visibleTextEditors, decorations,
                decorated, call>>

CallApplyDelta ==
    /\ ret = Pending
    /\ call.op = "applyDelta"
    /\ ret' = applyDelta(call.prev, call.delta)
    /\ FnFrame

CallComputeInactiveRanges ==
    /\ ret = Pending
    /\ call.op = "computeInactiveRanges"
    /\ ret' = [ranges |-> computeInactiveRanges(call.tokens)]
    /\ FnFrame

CallReplaceInactiveRanges ==
    /\ ret = Pending
    /\ call.op = "replaceInactiveRanges"
    /\ ret' = replaceInactiveRanges(call.tokens)
    /\ FnFrame

NextFn ==
    \/ CallApplyDelta
    \/ CallComputeInactiveRanges
    \/ CallReplaceInactiveRanges

SpecFn == InitFn /\ [][NextFn]_vars

-----------------------------------------------------------------------------
(* Reference definitions the claims are stated with *)

\* the edits are in bounds of a buffer of n integers, in ascending order of
\* start, and none reaches into the next
WellFormedEdits(edits, n) ==
    /\ \A i \in 1..Len(edits) : edits[i].start + edits[i].deleteCount <= n
    /\ \A i \in 1..Len(edits) - 1 :
          edits[i].start + edits[i].deleteCount <= edits[i + 1].start

\* buffer[from..to), counted from 0
Slice(buffer, from, to) == SubSeq(buffer, from + 1, to)

\* The buffer with each span [start, start + deleteCount) replaced by the
\* edit's data, built from the left: `from` is the end of the last span.
RECURSIVE Spliced(_, _, _)
Spliced(buffer, edits, from) ==
    IF edits = <<>>
    THEN Slice(buffer, from, Len(buffer))
    ELSE LET e == Head(edits)
         IN  Slice(buffer, from, e.start) \o e.data
                 \o Spliced(buffer, Tail(edits), e.start + e.deleteCount)

RECURSIVE SumInserted(_)
SumInserted(edits) ==
    IF edits = <<>> THEN 0 ELSE Len(Head(edits).data) + SumInserted(Tail(edits))

RECURSIVE SumDeleted(_)
SumDeleted(edits) ==
    IF edits = <<>> THEN 0 ELSE Head(edits).deleteCount + SumDeleted(Tail(edits))

\* field f (0..4) of record k (from 0) of a stream
Field(data, k, f) == data[5 * k + f + 1]

\* the line of record k: the sum of deltaLine up to and including it
RECURSIVE AbsLine(_, _)
AbsLine(data, k) == IF k < 0 THEN 0 ELSE AbsLine(data, k - 1) + Field(data, k, 0)

\* the start column of record k: relative to the record before it on the same
\* line, absolute on a new line
RECURSIVE AbsColumn(_, _)
AbsColumn(data, k) ==
    IF k < 0 THEN 0
    ELSE IF Field(data, k, 0) > 0 THEN Field(data, k, 1)
    ELSE AbsColumn(data, k - 1) + Field(data, k, 1)

\* the range a sentinel record k stands for
RangeOfRecord(data, k) ==
    Range(Position(AbsLine(data, k), AbsColumn(data, k)),
          Position(AbsLine(data, k), AbsColumn(data, k) + Field(data, k, 2)))

\* the records from k on whose typeCode is the sentinel index, in stream order
RECURSIVE SentinelRecords(_, _)
SentinelRecords(data, k) ==
    IF 5 * k >= Len(data) THEN <<>>
    ELSE (IF Field(data, k, 3) = inactiveCodeTokenTypeIndex THEN <<k>> ELSE <<>>)
             \o SentinelRecords(data, k + 1)

\* ranges in non-decreasing order of (start line, start column)
NonDecreasing(ranges) ==
    \A j \in 1..Len(ranges) - 1 :
        \/ ranges[j].start.line < ranges[j + 1].start.line
        \/ /\ ranges[j].start.line = ranges[j + 1].start.line
           /\ ranges[j].start.character <= ranges[j + 1].start.character

\* the last step was a call of one of the two token handlers
TokensCall ==
    call.op \in {"provideDocumentSemanticTokens", "provideDocumentSemanticTokensEdits"}

\* this step is a call of provideDocumentSemanticTokensEdits with a delta
DeltaStep ==
    /\ call = Idle
    /\ call'.op = "provideDocumentSemanticTokensEdits"
    /\ ~isSemanticTokens(call'.tokens)

\* ... whose base is not what is stored for the document
UnresolvedDeltaStep ==
    /\ DeltaStep
    /\ \/ call'.document \notin DOMAIN lastTokens
       \/ lastTokens[call'.document].resultId # call'.previousResultId

\* ... whose base is the stored resultId
ResolvedDeltaStep ==
    /\ DeltaStep
    /\ call'.document \in DOMAIN lastTokens
    /\ lastTokens[call'.document].resultId = call'.previousResultId

-----------------------------------------------------------------------------
(* Claims *)

\* C1: a delta for a document that has no stored tokens, or whose stored
\* resultId differs from the declared previousResultId, is returned as it
\* came, and the stored tokens (resultId and buffer), the stored ranges and
\* every editor's decorations stay as they were.
C1_UnresolvedFallback ==
    [][UnresolvedDeltaStep
         => /\ ret' = call'.tokens
            /\ decorated' = {}
            /\ UNCHANGED <<lastTokens, lastInactiveRanges, decorations>>]_vars

\* C1 witness: a delta naming base "2" came back unchanged for a document
\* whose stored resultId is "1" and whose editor is decorated.
C1_Witness ==
    /\ call.op = "provideDocumentSemanticTokensEdits"
    /\ call.document = "a.cpp"
    /\ call.previousResultId = "2"
    /\ ~isSemanticTokens(call.tokens)
    /\ call.tokens.edits # <<>>
    /\ ret = call.tokens
    /\ "a.cpp" \in DOMAIN lastTokens
    /\ lastTokens["a.cpp"].resultId = "1"
    /\ "e1" \in DOMAIN decorations
    /\ decorations["e1"] # <<>>

\* C2: a delta whose base is the stored resultId and whose edits are well
\* formed leaves the stored tokens, stored ranges, decorations and returned
\* stream that a full transmission of the patched buffer under the delta's
\* resultId leaves.
C2_DeltaEqualsFull ==
    [][(/\ ResolvedDeltaStep
        /\ WellFormedEdits(call'.tokens.edits, Len(lastTokens[call'.document].data)))
         => ProvideBody(call'.document,
                        [resultId |-> call'.tokens.resultId,
                         data |-> Spliced(lastTokens[call'.document].data,
                                          call'.tokens.edits, 0)])]_vars

\* C2 witness: a record was appended by a delta from base "1" to "2"; the two
\* records are stored under "2", the range of the first decorates the editor.
C2_Witness ==
    /\ call.op = "provideDocumentSemanticTokensEdits"
    /\ call.document = "a.cpp"
    /\ call.previousResultId = "1"
    /\ call.tokens = [resultId |-> "2", edits |-> <<Edit(5, 0, <<0, 5, 3, 1, 0>>)>>]
    /\ "a.cpp" \in DOMAIN lastTokens
    /\ lastTokens["a.cpp"] = [resultId |-> "2", data |-> <<2, 4, 6, 0, 0, 0, 5, 3, 1, 0>>]
    /\ lastInactiveRanges["a.cpp"] = <<Range(Position(2, 4), Position(2, 10))>>
    /\ "e1" \in decorated
    /\ decorations["e1"] = lastInactiveRanges["a.cpp"]
    /\ ret = [resultId |-> "2", data |-> <<2, 4, 6, 2, 0, 0, 5, 3, 1, 0>>]


\* C3: for every previous buffer and every edit list that is ascending,
\* non-overlapping and within bounds, applyDelta returns exactly the previous
\* buffer with each span [start, start + deleteCount) replaced by the edit's
\* data, under the delta's resultId; its length is the previous length plus
\* the sum of inserted lengths minus the sum of deleteCounts.
C3_PatchCorrectness ==
    (/\ call.op = "applyDelta"
     /\ ret # Pending
     /\ WellFormedEdits(call.delta.edits, Len(call.prev.data)))
    => /\ ret = [resultId |-> call.delta.resultId,
                 data |-> Spliced(call.prev.data, call.delta.edits, 0)]
       /\ Len(ret.data) = Len(call.prev.data) + SumInserted(call.delta.edits)
                              - SumDeleted(call.delta.edits)

\* C3 witness: the documented example is patched as documented.
C3_Witness ==
    /\ call.op = "applyDelta"
    /\ call.prev.data = ExamplePrevious
    /\ call.delta.edits = ExampleEdits
    /\ ret = [resultId |-> "2", data |-> <<0, 0, 3, 1, 0, 1, 0, 4, 3, 0>>]

\* C4: for every stream whose length is a multiple of 5, computeInactiveRanges
\* emits the range of each record whose typeCode is the sentinel index and of
\* no other record, in stream order; the list is non-decreasing in
\* (startLine, startColumn), and empty for a stream without sentinel record.
C4_ExtractionExact ==
    (/\ call.op = "computeInactiveRanges"
     /\ ret # Pending
     /\ Len(call.tokens.data) % 5 = 0)
    => LET data == call.tokens.data
           ks == SentinelRecords(data, 0)
       IN  /\ Len(ret.ranges) = Len(ks)
           /\ \A j \in 1..Len(ks) : ret.ranges[j] = RangeOfRecord(data, ks[j])
           /\ NonDecreasing(ret.ranges)
           /\ (ks = <<>> => ret.ranges = <<>>)

\* C4 witness: of three kinds of record, only the two sentinel records are
\* emitted, the second on the line of the first.
C4_Witness ==
    /\ call.op = "computeInactiveRanges"
    /\ inactiveCodeTokenTypeIndex = 0
    /\ call.tokens.data = <<1, 2, 3, 0, 7, 0, 2, 3, 0, 7>>
    /\ ret = [ranges |-> <<Range(Position(1, 2), Position(1, 5)),
                           Range(Position(1, 4), Position(1, 7))>>]

\* C5: replaceInactiveRanges returns a stream of the input's length in which
\* every deltaLine, deltaStartColumn, length and modifierBits is the input's,
\* and a typeCode is the appendix index where the input's is the sentinel
\* index and the input's everywhere else.
C5_RemapIsolation ==
    (/\ call.op = "replaceInactiveRanges"
     /\ ret # Pending)
    => LET in == call.tokens.data
           out == ret.data
       IN  /\ Len(out) = Len(in)
           /\ \A i \in 1..Len(in) :
                 out[i] = IF (i - 1) % 5 = 3 /\ in[i] = inactiveCodeTokenTypeIndex
                          THEN inactiveCodeTokenTypeReplaceIndex
                          ELSE in[i]

\* C5 witness: a sentinel record is retyped and the record after it is not.
C5_Witness ==
    /\ call.op = "replaceInactiveRanges"
    /\ inactiveCodeTokenTypeIndex = 0
    /\ inactiveCodeTokenTypeReplaceIndex = 2
    /\ call.tokens.data = <<1, 2, 3, 0, 7, 0, 2, 3, 1, 7>>
    /\ ret = [resultId |-> "1", data |-> <<1, 2, 3, 2, 7, 0, 2, 3, 1, 7>>]

\* the index of the designated name in a legend that holds it once
IndexOfComment(tokenTypes) ==
    CHOOSE i \in 0..Len(tokenTypes) - 1 : tokenTypes[i + 1] = "comment"

HasComment(tokenTypes) == \E i \in 1..Len(tokenTypes) : tokenTypes[i] = "comment"

\* the last call was a token handler that stored and forwarded a stream
Accepted == TokensCall /\ isSemanticTokens(ret)

\* C6: when the negotiated legend contains the designated name, the stream
\* forwarded for a full or resolved-delta transmission carries the
\* transmission's resultId, has the stored stream's fields except that no
\* typeCode is the sentinel index: each such typeCode is the legend's length.
C6_ForwardedOutput ==
    (Accepted /\ legend.negotiated /\ HasComment(legend.tokenTypes))
    => LET in == lastTokens[call.document].data
           sentinel == IndexOfComment(legend.tokenTypes)
       IN  /\ ret.resultId = call.tokens.resultId
           /\ isSemanticTokens(call.tokens) => in = call.tokens.data
           /\ Len(ret.data) = Len(in)
           /\ \A i \in 1..Len(in) :
                 IF (i - 1) % 5 = 3
                 THEN /\ ret.data[i] # sentinel
                      /\ ret.data[i] = IF in[i] = sentinel
                                       THEN Len(legend.tokenTypes) ELSE in[i]
                 ELSE ret.data[i] = in[i]

\* C6 witness: the documented scenario.
C6_Witness ==
    /\ call = [op |-> "provideDocumentSemanticTokens", document |-> "a.cpp",
               tokens |-> [resultId |-> "1", data |-> <<2, 4, 6, 0, 0>>]]
    /\ legend.tokenTypes = <<"comment", "keyword">>
    /\ ret = [resultId |-> "1", data |-> <<2, 4, 6, 2, 0>>]
    /\ lastInactiveRanges["a.cpp"] = <<Range(Position(2, 4), Position(2, 10))>>

\* C7: a full transmission whose buffer length is no multiple of 5 fails: the
\* stored tokens and ranges stay as they were and no stream is forwarded.
C7_MalformedRejected ==
    [][(/\ call = Idle
        /\ call'.op \in {"provideDocumentSemanticTokens",
                          "provideDocumentSemanticTokensEdits"}
        /\ isSemanticTokens(call'.tokens)
        /\ Len(call'.tokens.data) % 5 # 0)
         => /\ UNCHANGED <<lastTokens, lastInactiveRanges>>
            /\ ~isSemanticTokens(ret')]_vars

\* C8: a delta with a matching base whose edits overlap, descend or reach past
\* the stored buffer (here: a stored buffer of whole records) fails: nothing
\* is stored, decoded or forwarded, and the stored state stays in place.
C8_InvalidEditsFatal ==
    [][(/\ ResolvedDeltaStep
        /\ Len(lastTokens[call'.document].data) % 5 = 0
        /\ ~WellFormedEdits(call'.tokens.edits, Len(lastTokens[call'.document].data)))
         => /\ UNCHANGED <<lastTokens, lastInactiveRanges, decorations>>
            /\ ~isSemanticTokens(ret')]_vars

\* C9: when the legend negotiated for the session does not contain the
\* designated name, every full or resolved-delta transmission (here: of whole
\* records) stores an empty range list and forwards the stored stream as it is.
C9_MissingSentinelDisables ==
    (/\ Accepted
     /\ legend.negotiated
     /\ ~HasComment(legend.tokenTypes)
     /\ Len(lastTokens[call.document].data) % 5 = 0)
    => /\ lastInactiveRanges[call.document] = <<>>
       /\ ret.data = lastTokens[call.document].data

\* C10: on a visibility change, every listed editor whose document has cached
\* ranges is decorated with exactly those, no other editor is touched, and
\* the stored tokens and ranges of every document stay as they were.
C10_VisibilityReapplies ==
    [][(call = Idle /\ call'.op = "onDidChangeVisibleTextEditors")
         => /\ decorated' = {e \in call'.editors :
                                DocumentOf(e) \in DOMAIN lastInactiveRanges}
            /\ \A e \in decorated' :
                  decorations'[e] = lastInactiveRanges[DocumentOf(e)]
            /\ \A e \in Editors \ decorated' :
                  /\ e \in DOMAIN decorations' <=> e \in DOMAIN decorations
                  /\ e \in DOMAIN decorations => decorations'[e] = decorations[e]
            /\ UNCHANGED <<lastTokens, lastInactiveRanges>>]_vars

\* C10 witness: both editors become visible; the one whose document has cached
\* ranges gets them, the other, whose document has none, gets no call.
C10_Witness ==
    /\ call = [op |-> "onDidChangeVisibleTextEditors", editors |-> {"e1", "e2"}]
    /\ "a.cpp" \in DOMAIN lastInactiveRanges
    /\ lastInactiveRanges["a.cpp"] # <<>>
    /\ "b.cpp" \notin DOMAIN lastInactiveRanges
    /\ decorated = {"e1"}
    /\ decorations["e1"] = lastInactiveRanges["a.cpp"]
    /\ "e2" \notin DOMAIN decorations

\* this step is a token handler storing and forwarding a stream for document d
AcceptedStep(d) ==
    /\ call = Idle
    /\ call'.op \in {"provideDocumentSemanticTokens",
                      "provideDocumentSemanticTokensEdits"}
    /\ call'.document = d
    /\ isSemanticTokens(ret')

\* the resultId stored for d is the same before and after this step
SameStoredResultId(d) ==
    /\ d \in DOMAIN lastTokens' <=> d \in DOMAIN lastTokens
    /\ d \in DOMAIN lastTokens => lastTokens'[d].resultId = lastTokens[d].resultId

\* C11: the resultId stored for a document is that of the transmission
\* accepted last for it (an accepted full or resolved-delta transmission
\* stores its own resultId, no other step changes the stored one), and a delta
\* is resolved, that is not handed back as it came, exactly if its declared
\* base is that resultId; a delta naming any other is handed back.
C11_OnlyLatestIsBase ==
    [][/\ \A d \in Documents :
             IF AcceptedStep(d)
             THEN lastTokens'[d].resultId = call'.tokens.resultId
             ELSE SameStoredResultId(d)
       /\ DeltaStep
            => (ret' # call'.tokens
                  <=> /\ call'.document \in DOMAIN lastTokens
                      /\ lastTokens[call'.document].resultId = call'.previousResultId)]_vars

\* C11 witness: a delta from base "1" to "2" that retypes the first record
\* and deletes the second was resolved; "2" is now the stored resultId.
C11_Witness ==
    /\ call.op = "provideDocumentSemanticTokensEdits"
    /\ call.document = "a.cpp"
    /\ call.previousResultId = "1"
    /\ call.tokens = [resultId |-> "2",
                      edits |-> <<Edit(3, 1, <<1>>), Edit(5, 5, <<>>)>>]
    /\ "a.cpp" \in DOMAIN lastTokens
    /\ lastTokens["a.cpp"] = [resultId |-> "2", data |-> <<2, 4, 6, 1, 0>>]
    /\ isSemanticTokens(ret)

\* C12: a resolved delta with no edits leaves the document's stored buffer and
\* stored ranges equal to their previous values and changes only the stored
\* resultId (applyDelta with an empty edit list returns an equal buffer).
\* Stated for stored buffers of whole records.
C12_NoOpDelta ==
    [][\A d \in Documents :
         (/\ ResolvedDeltaStep
          /\ call'.document = d
          /\ call'.tokens.edits = <<>>
          /\ Len(lastTokens[d].data) % 5 = 0)
            => /\ applyDelta(lastTokens[d], call'.tokens).data = lastTokens[d].data
               /\ lastTokens'[d] = [resultId |-> call'.tokens.resultId,
                                    data |-> lastTokens[d].data]
               /\ lastInactiveRanges'[d] = lastInactiveRanges[d]]_vars

-----------------------------------------------------------------------------
(* The negotiation alone, over every legend of one to MaxLegendLen distinct   *)
(* names: the client is started and restarted against servers of any legend.  *)

MaxLegendLen == 3

LegendNames == {"comment", "keyword", "macro"}

WideLegends ==
    {l \in UNION {[1..n -> LegendNames] : n \in 1..MaxLegendLen} :
        \A i, j \in DOMAIN l : l[i] = l[j] => i = j}

WideCapabilities ==
    {[semanticTokensProvider |-> TRUE, tokenTypes |-> l] : l \in WideLegends}
    \cup {[semanticTokensProvider |-> FALSE, tokenTypes |-> <<>>]}

NextLegend ==
    \/ \E capabilities \in WideCapabilities : initialize(capabilities)
    \/ Return

SpecLegend == Init /\ [][NextLegend]_vars

\* C13: right after initialize with a legend that contains the designated
\* name, the sentinel index is the index of that name and the appendix index
\* is the legend's length; and in every reachable state with a defined
\* sentinel index, the sentinel and appendix indices are distinct and the
\* appendix index is no valid index into the negotiated legend.
C13_LegendNegotiation ==
    /\ (/\ call.op = "initialize"
         /\ call.capabilities.semanticTokensProvider
         /\ HasComment(call.capabilities.tokenTypes))
        => /\ inactiveCodeTokenTypeIndex = IndexOfComment(call.capabilities.tokenTypes)
           /\ inactiveCodeTokenTypeReplaceIndex = Len(call.capabilities.tokenTypes)
    /\ inactiveCodeTokenTypeIndex # Undefined
        => /\ inactiveCodeTokenTypeIndex # inactiveCodeTokenTypeReplaceIndex
           /\ inactiveCodeTokenTypeReplaceIndex \notin 0..(Len(legend.tokenTypes) - 1)

\* C14: for a stream of whole records, the j-th range computeInactiveRanges
\* emits belongs to the j-th sentinel record k: its start line is the sum of
\* deltaLine over the records up to k; its start column is deltaStartColumn
\* added to the start column of record k - 1 (0 before the first record) when
\* deltaLine of k is 0, and deltaStartColumn alone otherwise; it ends on its
\* start line, at the start column plus the record's length.
C14_AbsolutePositions ==
    (/\ call.op = "computeInactiveRanges"
     /\ ret # Pending
     /\ Len(call.tokens.data) % 5 = 0)
    => LET data == call.tokens.data
           ks == SentinelRecords(data, 0)
       IN  \A j \in 1..Len(ret.ranges) :
              /\ j <= Len(ks)
              /\ LET k == ks[j]
                     r == ret.ranges[j]
                 IN  /\ r.start.line = AbsLine(data, k)
                     /\ r.start.character =
                            IF Field(data, k, 0) = 0
                            THEN (IF k = 0 THEN 0 ELSE AbsColumn(data, k - 1))
                                 + Field(data, k, 1)
                            ELSE Field(data, k, 1)
                     /\ r.end.line = r.start.line
                     /\ r.end.character = r.start.character + Field(data, k, 2)

\* C14 witness: the sentinel record follows a record of another type on line
\* 1, column 2; its deltaLine is 0, so it starts on line 1 at column 2 + 2.
C14_Witness ==
    /\ call.op = "computeInactiveRanges"
    /\ inactiveCodeTokenTypeIndex = 0
    /\ call.tokens.data = <<1, 2, 3, 1, 7, 0, 2, 3, 0, 7>>
    /\ ret = [ranges |-> <<Range(Position(1, 4), Position(1, 7))>>]

\* The stream the sender holds for the document of this step's transmission:
\* the payload's for a full transmission, the stored one with the edits
\* applied for a delta.
SenderStream ==
    IF isSemanticTokens(call'.tokens)
    THEN call'.tokens.data
    ELSE Spliced(lastTokens[call'.document].data, call'.tokens.edits, 0)

\* C15: every accepted transmission (a full one, or a resolved delta of well
\* formed edits) stores the sender's stream, sentinel codes intact: the full
\* payload's buffer, or the previously stored buffer with the edits applied.
\* The stored ranges are extracted from that stream, and where the forwarded
\* stream differs from it, the stored buffer is not the forwarded one.
C15_StoreKeepsOriginal ==
    [][\A d \in Documents :
         (/\ AcceptedStep(d)
          /\ isSemanticTokens(call'.tokens)
               \/ WellFormedEdits(call'.tokens.edits, Len(lastTokens[d].data)))
            => /\ lastTokens'[d].data = SenderStream
               /\ lastInactiveRanges'[d] = computeInactiveRanges([data |-> SenderStream])
               /\ ret'.data = replaceInactiveRanges(lastTokens'[d]).data
               /\ ret'.data # SenderStream => lastTokens'[d].data # ret'.data]_vars

\* C15 witness: a delta deleted the second of two stored records; the record
\* left is stored with its sentinel code 0, while the forwarded stream
\* carries the appendix index 2 in its place.
C15_Witness ==
    /\ call.op = "provideDocumentSemanticTokensEdits"
    /\ call.document = "a.cpp"
    /\ call.tokens = [resultId |-> "2", edits |-> <<Edit(5, 5, <<>>)>>]
    /\ call.previousResultId = "1"
    /\ "a.cpp" \in DOMAIN lastTokens
    /\ lastTokens["a.cpp"] = [resultId |-> "2", data |-> <<2, 4, 6, 0, 0>>]
    /\ ret = [resultId |-> "2", data |-> <<2, 4, 6, 2, 0>>]

\* C16: in every state, for every document, the stored tokens and the stored
\* ranges are both absent or both present, and when present the stored ranges
\* are the extraction from the stored buffer (here: of whole records) under
\* the token type index of the session.
C16_CacheConsistency ==
    \A d \in Documents :
       /\ d \in DOMAIN lastTokens <=> d \in DOMAIN lastInactiveRanges
       /\ (d \in DOMAIN lastTokens /\ Len(lastTokens[d].data) % 5 = 0)
            => lastInactiveRanges[d] = computeInactiveRanges(lastTokens[d])

\* C17: the host reports every change of the visible editors through
\* onDidChangeVisibleTextEditors; then in every state, every visible editor
\* whose document has cached ranges carries exactly those as its decoration.
C17_DecorationConsistency ==
    \A e \in visibleTextEditors :
       DocumentOf(e) \in DOMAIN lastInactiveRanges
          => /\ e \in DOMAIN decorations
             /\ decorations[e] = lastInactiveRanges[DocumentOf(e)]

\* C17 witness: while both editors are visible, a delta for a.cpp retyped its
\* first record, the sentinel one, and deleted its second; the editor showing
\* a.cpp lost its decoration, the other keeps the ranges cached for b.cpp.
C17_Witness ==
    /\ visibleTextEditors = {"e1", "e2"}
    /\ inactiveCodeTokenTypeIndex = 0
    /\ call.op = "provideDocumentSemanticTokensEdits"
    /\ call.document = "a.cpp"
    /\ ~isSemanticTokens(call.tokens)
    /\ call.tokens.edits = <<Edit(3, 1, <<1>>), Edit(5, 5, <<>>)>>
    /\ isSemanticTokens(ret)
    /\ "a.cpp" \in DOMAIN lastTokens
    /\ lastTokens["a.cpp"].data = <<2, 4, 6, 1, 0>>
    /\ "b.cpp" \in DOMAIN lastInactiveRanges
    /\ lastInactiveRanges["b.cpp"] = <<Range(Position(2, 4), Position(2, 10))>>
    /\ DOMAIN decorations = {"e1", "e2"}
    /\ decorations["e2"] = lastInactiveRanges["b.cpp"]
    /\ lastInactiveRanges["a.cpp"] = <<>>
    /\ decorations["e1"] = <<>>
    /\ decorated = {"e1"}

\* C18: a full payload passed to provideDocumentSemanticTokensEdits is accepted
\* whatever base is declared and whatever is stored: it replaces the stored
\* tokens and ranges of its document and is forwarded remapped.  The stored
\* tokens outlive the handler's return, and the next delta that declares the
\* stored resultId as its base is resolved and (its edits well formed)
\* patched against that stored buffer.
C18_FullResynchronizes ==
    [][/\ (/\ call = Idle
            /\ call'.op = "provideDocumentSemanticTokensEdits"
            /\ isSemanticTokens(call'.tokens))
           => /\ call'.document \in DOMAIN lastTokens'
              /\ lastTokens'[call'.document] = call'.tokens
              /\ lastInactiveRanges'[call'.document] = computeInactiveRanges(call'.tokens)
              /\ ret' = replaceInactiveRanges(call'.tokens)
       /\ (call # Idle /\ call' = Idle) => UNCHANGED <<lastTokens, lastInactiveRanges>>
       /\ ResolvedDeltaStep
           => LET stored == lastTokens[call'.document]
              IN  /\ ret' # call'.tokens
                  /\ WellFormedEdits(call'.tokens.edits, Len(stored.data))
                       => lastTokens'[call'.document] =
                              [resultId |-> call'.tokens.resultId,
                               data |-> Spliced(stored.data, call'.tokens.edits, 0)]]_vars

\* C18 witness: a full payload of two records with resultId "1" came in
\* through provideDocumentSemanticTokensEdits under the declared base "2"; it
\* is what is stored, and it was forwarded remapped.
C18_Witness ==
    /\ call.op = "provideDocumentSemanticTokensEdits"
    /\ call.document = "a.cpp"
    /\ call.previousResultId = "2"
    /\ call.tokens = [resultId |-> "1", data |-> <<2, 4, 6, 0, 0, 0, 5, 3, 1, 0>>]
    /\ "a.cpp" \in DOMAIN lastTokens
    /\ lastTokens["a.cpp"] = call.tokens
    /\ inactiveCodeTokenTypeIndex = 0
    /\ ret = [resultId |-> "1", data |-> <<2, 4, 6, 2, 0, 0, 5, 3, 1, 0>>]

\* what map m holds for key k is the same before and after this step
SameEntry(m, k) ==
    /\ k \in DOMAIN m' <=> k \in DOMAIN m
    /\ k \in DOMAIN m => m'[k] = m[k]

\* C19: a full or delta transmission for one document leaves the stored
\* tokens (resultId and buffer) and stored ranges of every other document as
\* they were, invokes setDecorations only on visible editors showing its
\* document and leaves every other editor's decoration as it was; a delta for
\* a document that has no stored tokens or another stored resultId is handed
\* back as it came, whatever resultId is stored for the other documents.
C19_PerDocumentIsolation ==
    [][(/\ call = Idle
        /\ call'.op \in {"provideDocumentSemanticTokens",
                          "provideDocumentSemanticTokensEdits"})
         => /\ \A other \in Documents \ {call'.document} :
                  /\ SameEntry(lastTokens, other)
                  /\ SameEntry(lastInactiveRanges, other)
            /\ decorated' \subseteq {e \in visibleTextEditors :
                                        DocumentOf(e) = call'.document}
            /\ \A e \in Editors :
                  DocumentOf(e) # call'.document => SameEntry(decorations, e)
            /\ UnresolvedDeltaStep => ret' = call'.tokens]_vars

\* C19 witness: a delta for a.cpp declares base "2", which is the resultId
\* stored for b.cpp and not the one stored for a.cpp; it was handed back as
\* it came although both editors are visible and b.cpp's buffer would suit.
C19_Witness ==
    /\ call.op = "provideDocumentSemanticTokensEdits"
    /\ call.document = "a.cpp"
    /\ call.previousResultId = "2"
    /\ ~isSemanticTokens(call.tokens)
    /\ ret = call.tokens
    /\ visibleTextEditors = {"e1", "e2"}
    /\ DOMAIN lastTokens = {"a.cpp", "b.cpp"}
    /\ lastTokens["a.cpp"].resultId = "1"
    /\ lastTokens["b.cpp"] = [resultId |-> "2", data |-> <<2, 4, 6, 0, 0>>]
    /\ decorated = {}

====
